---------------------------- MODULE Spec2Model ----------------------------
(***************************************************************************)
(* Model of src/workshop/sales_data.py: the SalesData helper, one asyncpg  *)
(* connection pool handle (self.pool) shared by coroutines that run on one *)
(* asyncio event loop.  A step of the model is the code one coroutine runs *)
(* between two suspension points (await create_pool, await pool.close,     *)
(* entering "async with pool.acquire()", await conn.fetch).                *)
(*                                                                         *)
(* Text is a sequence of string tokens, JSON text is the tree it encodes,  *)
(* a database value carries its type (int or str), an asyncpg Record is an *)
(* ordered sequence of <<column, value>> pairs.                            *)
(***************************************************************************)
EXTENDS Integers, Sequences, FiniteSets, TLC

VARIABLES
    pool,    \* self.pool: 0 is None, p > 0 is the p-th pool create_pool made
    pools,   \* asyncpg's side: state of every pool created so far, by number
    task,    \* each coroutine of the caller: the call it is in and its locals
    calls    \* the lifecycle calls the caller has completed, in order

vars == <<pool, pools, task, calls>>

(* ------------------------------ bounds -------------------------------- *)

\* pools create_pool may make in one run
MaxPools == 2

\* lifecycle calls a sequential caller makes in one run
MaxCalls == 4

\* rows the introspection query may return
MaxSchemaRows == 3

Tasks == {"t1", "t2"}

\* t1 may call every operation, t2 the two lifecycle operations: the query
\* operations only read self.pool, so two of them never affect each other.
OpsOf(t) ==
    IF t = "t1"
    THEN {"connect", "close", "fetch_list", "get_database_info", "async_fetch"}
    ELSE {"connect", "close"}

QueryOps == {"fetch_list", "get_database_info", "async_fetch"}

(* ------------------------------ values -------------------------------- *)

DB_SCHEMA == "contoso"

NOT_CONNECTED == "Database connection is not established."

SCHEMA_ERROR == "Error fetching schema information."

NO_RESULTS == "The query returned no results. Try a different question."

StrV(s) == [t |-> "str", v |-> s]

IntV(n) == [t |-> "int", v |-> n]

Digit == <<"0", "1", "2", "3", "4", "5", "6", "7", "8", "9">>

RECURSIVE IntToStr(_)
IntToStr(n) ==
    IF n < 10 THEN Digit[n + 1]
    ELSE IntToStr(n \div 10) \o Digit[(n % 10) + 1]

\* str(value) of line 89
PyStr(val) == IF val.t = "int" THEN IntToStr(val.v) ELSE val.v

Front(s) == SubSeq(s, 1, Len(s) - 1)

Last(s) == s[Len(s)]

\* sep.join(parts): parts is a sequence of texts, sep a text
RECURSIVE Join(_, _)
Join(sep, parts) ==
    IF parts = <<>> THEN <<>>
    ELSE IF Len(parts) = 1 THEN parts[1]
    ELSE Join(sep, Front(parts)) \o sep \o Last(parts)

\* json.dumps(s) of a str: a JSON string
JsonString(s) == [j |-> "string", v |-> s]

\* a JSON object: its members <<key, value>> in the order they are written
JsonObject(members) == [j |-> "object", v |-> members]

(* ------------------------------- rows --------------------------------- *)

Keys(row) == [i \in DOMAIN row |-> row[i][1]]

Values(row) == [i \in DOMAIN row |-> row[i][2]]

HasKey(row, column) == \E i \in DOMAIN row : row[i][1] = column

\* row[column]
Get(row, column) == row[CHOOSE i \in DOMAIN row : row[i][1] = column][2]

\* the messages a failing conn.fetch carries
FetchErrors == {"syntax error", "connection lost"}

\* the ways entering "async with self.pool.acquire()" fails on an open pool
AcquireErrors == {"cannot connect"}

\* result sets of a caller's query
ResultSets ==
    { <<>>,
      << << <<"region", StrV("West")>>, <<"year", IntV(2023)>> >>,
         << <<"region", StrV("East")>>, <<"year", IntV(2022)>> >> >> }

QueryTexts == {"SELECT 1", "SELEC 2"}

ColumnNames == {"region", "month"}

\* lines 78-83: label, query, column, in the dict's order
queries ==
    << <<"Regions", "SELECT DISTINCT region FROM contoso.sales_data;", "region">>,
       <<"Product Types", "SELECT DISTINCT product_type FROM contoso.sales_data;", "product_type">>,
       <<"Product Categories", "SELECT DISTINCT main_category FROM contoso.sales_data;", "main_category">>,
       <<"Reporting Years", "SELECT DISTINCT year FROM contoso.sales_data ORDER BY year;", "year">> >>

\* what a distinct-value query may return: its column, in one or two rows
DistinctResults(column) ==
    IF column = "year"
    THEN { << << <<"year", IntV(2022)>> >>, << <<"year", IntV(2023)>> >> >> }
    ELSE { << << <<column, StrV("A")>> >>, << <<column, StrV("B")>> >> >> }

\* rows of information_schema.columns
SchemaRow(tn, cn, dt) == [table_name |-> tn, column_name |-> cn, data_type |-> dt]

SchemaRows ==
    { SchemaRow("orders", "id", "integer"), SchemaRow("orders", "total", "numeric"),
      SchemaRow("customers", "id", "integer"), SchemaRow("customers", "name", "text") }

SeqsUpTo(S, n) == UNION { [1..m -> S] : m \in 0..n }

\* every introspection result within the bound
SchemaResults == SeqsUpTo(SchemaRows, MaxSchemaRows)

\* the introspection results tried when other coroutines run beside the call
SampleSchemaResults ==
    { << SchemaRow("orders", "id", "integer"), SchemaRow("customers", "name", "text"),
         SchemaRow("orders", "total", "numeric") >> }

(* ------------------------ get_database_info text ---------------------- *)

\* f"{row['column_name']}: {row['data_type']}"
Descriptor(row) == <<row.column_name, ": ", row.data_type>>

TableIndex(tables, name) == CHOOSE i \in DOMAIN tables : tables[i][1] = name

\* a grouping that only merges a row into the table of the row before it
RECURSIVE GroupAdjacent(_)
GroupAdjacent(schema_data) ==
    IF schema_data = <<>> THEN <<>>
    ELSE LET tables == GroupAdjacent(Front(schema_data))
             row == Last(schema_data)
         IN  IF tables # <<>> /\ Last(tables)[1] = row.table_name
             THEN [tables EXCEPT ![Len(tables)][2] = Append(@, Descriptor(row))]
             ELSE Append(tables, <<row.table_name, <<Descriptor(row)>> >>)

\* lines 69-71: tables.setdefault(table_name, []).append(descriptor); the dict
\* is the sequence of its <<key, list>> items in insertion order
RECURSIVE GroupTables(_)
GroupTables(schema_data) ==
    IF schema_data = <<>> THEN <<>>
    ELSE LET tables == GroupTables(Front(schema_data))
             row == Last(schema_data)
         IN  IF \E i \in DOMAIN tables : tables[i][1] = row.table_name
             THEN [tables EXCEPT ![TableIndex(tables, row.table_name)][2] =
                                     Append(@, Descriptor(row))]
             ELSE Append(tables, <<row.table_name, <<Descriptor(row)>> >>)

\* f"Table {DB_SCHEMA}.{table}: Columns: {', '.join(cols)}"
TableLine(table, cols) ==
    <<"Table ", DB_SCHEMA, ".", table, ": Columns: ">> \o Join(<<", ">>, cols)

\* lines 73-75
TablesText(schema_data) ==
    LET tables == GroupTables(schema_data)
    IN  Join(<<"\n">>, [i \in DOMAIN tables |-> TableLine(tables[i][1], tables[i][2])])

\* line 89: f"\n{key}: {', '.join(map(str, values))}"
ValuesLine(key, values) ==
    <<"\n", key, ": ">> \o Join(<<", ">>, [i \in DOMAIN values |-> <<PyStr(values[i])>>])

\* lines 88-89 over results, a sequence of <<key, values>> in the dict's order
RECURSIVE AppendMetadata(_, _)
AppendMetadata(database_info, results) ==
    IF results = <<>> THEN database_info
    ELSE AppendMetadata(database_info, Front(results))
             \o ValuesLine(Last(results)[1], Last(results)[2])

(* --------------------- async_fetch_sales_data JSON -------------------- *)

\* line 106: DataFrame(rows, columns=rows[0].keys()).to_json(index=False, orient="split")
SplitJson(rows) ==
    JsonObject(<< <<"columns", Keys(rows[1])>>,
                  <<"data", [i \in DOMAIN rows |-> Values(rows[i])]>> >>)

\* line 110
ErrorJson(message, query) ==
    JsonObject(<< <<"error", message>>, <<"query", query>> >>)

\* line 96
NotConnectedJson == JsonObject(<< <<"error", NOT_CONNECTED>> >>)

(* ------------------------------ coroutines ---------------------------- *)

NoResult == [kind |-> "none", v |-> <<>>]

ListResult(values) == [kind |-> "list", v |-> values]

TextResult(text) == [kind |-> "text", v |-> text]

JsonResult(json) == [kind |-> "json", v |-> json]

\* a coroutine of the caller that is in no call
IdleTask ==
    [op |-> "none", pc |-> "idle", query |-> "", column |-> "", p |-> 0, held |-> 0,
     k |-> 0, schema_data |-> <<>>, database_info |-> <<>>, results |-> <<>>,
     rows |-> <<>>, executed |-> <<>>, logged |-> <<>>, result |-> NoResult, exc |-> ""]

Start(op) == [IdleTask EXCEPT !.op = op]

\* the caller may make its next call on t
Idle(t) == task[t].pc \in {"idle", "done", "raised"}

\* t holds a connection of pool p (inside an "async with" block)
Holds(t, p) == task[t].held > 0 /\ task[t].p = p

\* leaving the "async with" block returns the connection to its pool
Release(tk) == [tk EXCEPT !.held = @ - 1]

\* logger.error / logger.exception; logging.basicConfig(level=ERROR) drops the
\* logger.info calls of lines 27 and 36
Log(tk, level, text, detail) ==
    [tk EXCEPT !.logged = Append(@, <<level, text, detail>>)]

\* the call returns res to its caller
Return(tk, res) == [tk EXCEPT !.pc = "done", !.result = res]

\* the call ends with exception e propagating to its caller
Raise(tk, e) == [tk EXCEPT !.pc = "raised", !.exc = e]

\* the check of a query operation that forgets to test self.pool
PoolAbsentUnchecked == FALSE

\* "if not self.pool" of lines 40, 52, 95
PoolAbsent == pool = 0

\* entering "async with self.pool.acquire() as conn" (lines 43, 62, 100): None
\* has no acquire (AttributeError); asyncpg raises InterfaceError at once on a
\* pool that is closing or closed, and else suspends the coroutine until a
\* connection is handed out
EnterAcquire(tk) ==
    IF pool = 0 THEN Raise(tk, "AttributeError")
    ELSE IF pools[pool] = "open"
    THEN [tk EXCEPT !.pc = "acquire", !.p = pool]
    ELSE Raise([tk EXCEPT !.p = pool], "pool is " \o pools[pool])

RECURSIVE FetchListEnter(_)
RECURSIVE FetchListReturn(_, _)

\* lines 40-43: fetch_list from its entry to its first suspension
FetchListEnter(tk) ==
    IF PoolAbsent THEN FetchListReturn(tk, <<>>) ELSE EnterAcquire(tk)

\* fetch_list returns values: to the caller, or into line 85's comprehension,
\* which calls fetch_list for the next entry of queries and after the last one
\* runs lines 88-91
FetchListReturn(tk, values) ==
    IF tk.op = "fetch_list" THEN Return(tk, ListResult(values))
    ELSE LET results == Append(tk.results, <<queries[tk.k][1], values>>)
         IN  IF tk.k = Len(queries)
             THEN Return([tk EXCEPT !.results = results],
                         TextResult(AppendMetadata(tk.database_info, results)))
             ELSE FetchListEnter([tk EXCEPT !.results = results,
                                            !.k = tk.k + 1,
                                            !.query = queries[tk.k + 1][2],
                                            !.column = queries[tk.k + 1][3]])

(* ------------------------------- connect ------------------------------ *)

\* pools made or being made: the bound on create_pool
PoolsWanted == Len(pools) + Cardinality({t \in Tasks : task[t].pc = "create_pool"})

\* lines 21-26: connect up to "await asyncpg.create_pool"
ConnectCallStep(t) ==
    /\ Idle(t)
    /\ PoolsWanted < MaxPools
    /\ task' = [task EXCEPT ![t] = [Start("connect") EXCEPT !.pc = "create_pool"]]
    /\ UNCHANGED <<pool, pools>>

\* lines 26-27: create_pool returns a pool, self.pool is set to it
ConnectOkStep(t) ==
    /\ task[t].pc = "create_pool"
    /\ pools' = Append(pools, "open")
    /\ pool' = Len(pools) + 1
    /\ task' = [task EXCEPT ![t] = Return([@ EXCEPT !.p = Len(pools) + 1], NoResult)]

\* a failed connect that also resets the handle
ConnectFailClearsHandle(t) ==
    /\ task[t].pc = "create_pool"
    /\ task' = [task EXCEPT ![t] =
                   Return(Log(@, "exception", "Failed to connect to the database", ""),
                          NoResult)]
    /\ pool' = 0
    /\ UNCHANGED pools

\* lines 28-29: create_pool raises; the exception is logged and swallowed
ConnectFailStep(t) ==
    /\ task[t].pc = "create_pool"
    /\ task' = [task EXCEPT ![t] =
                   Return(Log(@, "exception", "Failed to connect to the database", ""),
                          NoResult)]
    /\ UNCHANGED <<pool, pools>>

(* -------------------------------- close ------------------------------- *)

\* lines 33-34: close up to "await self.pool.close()", which marks the pool
\* closing; with no pool the call returns at once
CloseCallStep(t) ==
    /\ Idle(t)
    /\ IF pool = 0
       THEN /\ task' = [task EXCEPT ![t] = Return(Start("close"), NoResult)]
            /\ UNCHANGED pools
       ELSE /\ pools' = [pools EXCEPT ![pool] = IF @ = "open" THEN "closing" ELSE @]
            /\ task' = [task EXCEPT ![t] =
                           [Start("close") EXCEPT !.pc = "pool_close", !.p = pool]]
    /\ UNCHANGED pool

\* a close that clears the handle without waiting for the pool to close
CloseDoneLeavesPool(t) ==
    /\ task[t].pc = "pool_close"
    /\ pool' = 0
    /\ task' = [task EXCEPT ![t] = Return(@, NoResult)]
    /\ UNCHANGED pools

\* a close that forgets line 35, self.pool = None
CloseDoneKeepsHandle(t) ==
    /\ task[t].pc = "pool_close"
    /\ \A u \in Tasks : ~Holds(u, task[t].p)
    /\ pools' = [pools EXCEPT ![task[t].p] = "closed"]
    /\ pool' = pool
    /\ task' = [task EXCEPT ![t] = Return(@, NoResult)]

\* lines 34-36: pool.close() returns once every connection of the pool has been
\* released and closed; then self.pool = None
CloseDoneStep(t) ==
    /\ task[t].pc = "pool_close"
    /\ \A u \in Tasks : ~Holds(u, task[t].p)
    /\ pools' = [pools EXCEPT ![task[t].p] = "closed"]
    /\ pool' = 0
    /\ task' = [task EXCEPT ![t] = Return(@, NoResult)]

ConnectCall(t) == "connect" \in OpsOf(t) /\ ConnectCallStep(t) /\ UNCHANGED calls

ConnectOk(t) == ConnectOkStep(t) /\ UNCHANGED calls

ConnectFail(t) == ConnectFailStep(t) /\ UNCHANGED calls

CloseCall(t) == "close" \in OpsOf(t) /\ CloseCallStep(t) /\ UNCHANGED calls

CloseDone(t) == CloseDoneStep(t) /\ UNCHANGED calls

(* ------------------------- the pool's connections --------------------- *)

\* "async with self.pool.acquire() as conn" hands out a connection; the body
\* calls conn.fetch(query) (lines 45, 64, 102) and suspends
AcquireOk(t) ==
    /\ task[t].pc = "acquire"
    /\ pools[task[t].p] = "open"
    /\ task' = [task EXCEPT ![t] = [@ EXCEPT !.pc = "fetch",
                                             !.held = @ + 1,
                                             !.executed = Append(@, task[t].query)]]
    /\ UNCHANGED <<pool, pools, calls>>

\* acquire raises: lines 43, 62 and 100 are outside the try blocks, so the
\* exception leaves the operation
AcquireFail(t) ==
    /\ task[t].pc = "acquire"
    /\ \E e \in AcquireErrors :
           task' = [task EXCEPT ![t] = Raise(@, e)]
    /\ UNCHANGED <<pool, pools, calls>>

(* ------------------------------ fetch_list ---------------------------- *)

\* lines 38-43
FetchListCall(t) ==
    /\ "fetch_list" \in OpsOf(t)
    /\ Idle(t)
    /\ \E q \in QueryTexts, c \in ColumnNames :
           task' = [task EXCEPT ![t] =
                       FetchListEnter([Start("fetch_list") EXCEPT !.query = q, !.column = c])]
    /\ UNCHANGED <<pool, pools, calls>>

\* the rows a fetch_list query may return
FetchListResults(tk) ==
    IF tk.op = "get_database_info" THEN DistinctResults(tk.column) ELSE ResultSets

\* line 45, and lines 46-48 when row[column] raises KeyError; the connection is
\* released on leaving the "async with" block
FetchListOk(t) ==
    /\ task[t].pc = "fetch"
    /\ \/ task[t].op = "fetch_list"
       \/ task[t].op = "get_database_info" /\ task[t].k > 0
    /\ \E rows \in FetchListResults(task[t]) :
           task' = [task EXCEPT ![t] =
               IF \A i \in DOMAIN rows : HasKey(rows[i], @.column)
               THEN FetchListReturn(Release(@),
                                    [i \in DOMAIN rows |-> Get(rows[i], task[t].column)])
               ELSE FetchListReturn(
                        Release(Log(@, "error", "Query failed", <<task[t].query, "KeyError">>)),
                        <<>>)]
    /\ UNCHANGED <<pool, pools, calls>>

\* lines 46-48: conn.fetch raises
FetchListFail(t) ==
    /\ task[t].pc = "fetch"
    /\ \/ task[t].op = "fetch_list"
       \/ task[t].op = "get_database_info" /\ task[t].k > 0
    /\ \E m \in FetchErrors :
           task' = [task EXCEPT ![t] =
               FetchListReturn(Release(Log(@, "error", "Query failed", <<task[t].query, m>>)),
                               <<>>)]
    /\ UNCHANGED <<pool, pools, calls>>

(* --------------------------- get_database_info ------------------------ *)

schema_query == "SELECT table_name, column_name, data_type FROM information_schema.columns"

\* lines 50-62
GetDatabaseInfoCall(t) ==
    /\ "get_database_info" \in OpsOf(t)
    /\ Idle(t)
    /\ task' = [task EXCEPT ![t] =
                   IF PoolAbsent
                   THEN Return(Start("get_database_info"), TextResult(<<NOT_CONNECTED>>))
                   ELSE EnterAcquire([Start("get_database_info") EXCEPT !.query = schema_query])]
    /\ UNCHANGED <<pool, pools, calls>>

\* lines 64, 69-85: the introspection rows arrive, the connection is released,
\* the table lines are built and the first fetch_list is called
SchemaFetchOk(t, results) ==
    /\ task[t].pc = "fetch"
    /\ task[t].op = "get_database_info" /\ task[t].k = 0
    /\ \E schema_data \in results :
           task' = [task EXCEPT ![t] =
               FetchListEnter([Release(@) EXCEPT !.schema_data = schema_data,
                                        !.database_info = TablesText(schema_data),
                                        !.k = 1,
                                        !.query = queries[1][2],
                                        !.column = queries[1][3]])]
    /\ UNCHANGED <<pool, pools, calls>>

\* a failed introspection that logs and goes on to the distinct-value queries
SchemaFetchFailGoesOn(t) ==
    /\ task[t].pc = "fetch"
    /\ task[t].op = "get_database_info" /\ task[t].k = 0
    /\ \E m \in FetchErrors :
           task' = [task EXCEPT ![t] =
               FetchListEnter([Release(Log(@, "error", "Schema query failed", m))
                                   EXCEPT !.k = 1,
                                          !.query = queries[1][2],
                                          !.column = queries[1][3]])]
    /\ UNCHANGED <<pool, pools, calls>>

\* lines 65-67
SchemaFetchFail(t) ==
    /\ task[t].pc = "fetch"
    /\ task[t].op = "get_database_info" /\ task[t].k = 0
    /\ \E m \in FetchErrors :
           task' = [task EXCEPT ![t] =
               Return(Release(Log(@, "error", "Schema query failed", m)),
                      TextResult(<<SCHEMA_ERROR>>))]
    /\ UNCHANGED <<pool, pools, calls>>

(* ------------------ async_fetch_sales_data_using_sqlite_query --------- *)

\* lines 93-100
AsyncFetchCall(t) ==
    /\ "async_fetch" \in OpsOf(t)
    /\ Idle(t)
    /\ \E q \in QueryTexts :
           task' = [task EXCEPT ![t] =
               IF PoolAbsent
               THEN Return([Start("async_fetch") EXCEPT !.query = q], JsonResult(NotConnectedJson))
               ELSE EnterAcquire(Log([Start("async_fetch") EXCEPT !.query = q],
                                     "print", "Executing query", q))]
    /\ UNCHANGED <<pool, pools, calls>>

\* lines 102-106
AsyncFetchOk(t) ==
    /\ task[t].pc = "fetch"
    /\ task[t].op = "async_fetch"
    /\ \E rows \in ResultSets :
           task' = [task EXCEPT ![t] =
               IF rows = <<>>
               THEN Return(Release([@ EXCEPT !.rows = rows]),
                           JsonResult(JsonString(NO_RESULTS)))
               ELSE Return(Release([@ EXCEPT !.rows = rows]), JsonResult(SplitJson(rows)))]
    /\ UNCHANGED <<pool, pools, calls>>

\* lines 108-110
AsyncFetchFail(t) ==
    /\ task[t].pc = "fetch"
    /\ task[t].op = "async_fetch"
    /\ \E m \in FetchErrors :
           task' = [task EXCEPT ![t] =
               Return(Release(Log(@, "error", "Query execution failed", m)),
                      JsonResult(ErrorJson(m, task[t].query)))]
    /\ UNCHANGED <<pool, pools, calls>>

(* --------------------------- specifications --------------------------- *)

\* lines 18-19: a new SalesData has no pool
Init ==
    /\ pool = 0
    /\ pools = <<>>
    /\ task = [t \in Tasks |-> IdleTask]
    /\ calls = <<>>

\* coroutines of one event loop sharing the helper
Next ==
    \E t \in Tasks :
        \/ ConnectCall(t)
        \/ ConnectOk(t)
        \/ ConnectFail(t)
        \/ CloseCall(t)
        \/ CloseDone(t)
        \/ FetchListCall(t)
        \/ GetDatabaseInfoCall(t)
        \/ AsyncFetchCall(t)
        \/ AcquireOk(t)
        \/ AcquireFail(t)
        \/ FetchListOk(t)
        \/ FetchListFail(t)
        \/ SchemaFetchOk(t, SampleSchemaResults)
        \/ SchemaFetchFail(t)
        \/ AsyncFetchOk(t)
        \/ AsyncFetchFail(t)

Spec == Init /\ [][Next]_vars

\* one caller that awaits each lifecycle call before it makes the next, and
\* notes in calls what it has called
SeqConnectCall ==
    /\ Len(calls) < MaxCalls
    /\ ConnectCallStep("t1")
    /\ UNCHANGED calls

SeqConnectOk == ConnectOkStep("t1") /\ calls' = Append(calls, "connect ok")

SeqConnectFail == ConnectFailStep("t1") /\ calls' = Append(calls, "connect failed")

SeqCloseCall ==
    /\ Len(calls) < MaxCalls
    /\ CloseCallStep("t1")
    /\ calls' = IF pool = 0 THEN Append(calls, "close") ELSE calls

SeqCloseDone == CloseDoneStep("t1") /\ calls' = Append(calls, "close")

NextSeq ==
    \/ SeqConnectCall
    \/ SeqConnectOk
    \/ SeqConnectFail
    \/ SeqCloseCall
    \/ SeqCloseDone

SeqSpec == Init /\ [][NextSeq]_vars

\* one caller that connects and asks for the database summary, over every
\* introspection result within MaxSchemaRows
NextInfo ==
    \/ ConnectCall("t1")
    \/ ConnectOk("t1")
    \/ ConnectFail("t1")
    \/ GetDatabaseInfoCall("t1")
    \/ AcquireOk("t1")
    \/ AcquireFail("t1")
    \/ SchemaFetchOk("t1", SchemaResults)
    \/ SchemaFetchFail("t1")
    \/ FetchListOk("t1")
    \/ FetchListFail("t1")

InfoSpec == Init /\ [][NextInfo]_vars

(* ------------------------------ properties ---------------------------- *)

\* the expected texts, written out
NotConnectedText == "Database connection is not established."

SchemaErrorText == "Error fetching schema information."

NoResultsText == "The query returned no results. Try a different question."

\* a text cut into its lines at the "\n" tokens
RECURSIVE SplitLines(_)
SplitLines(text) ==
    IF text = <<>> THEN << <<>> >>
    ELSE LET lines == SplitLines(Front(text))
         IN  IF Last(text) = "\n" THEN Append(lines, <<>>)
             ELSE [lines EXCEPT ![Len(lines)] = Append(@, Last(text))]

\* t has just been called: only a call changes a coroutine that was idle
Called(t, op) ==
    /\ Idle(t)
    /\ task'[t].op = op
    /\ task'[t] # task[t] \/ calls' # calls

\* C1: a query operation called while self.pool is None returns its fixed
\* not-connected value (empty list, the not-connected string, the JSON object
\* with the single member error), without raising, without acquiring a
\* connection or executing a query, and without touching the pools.
C1_NotConnected ==
    [][\A t \in Tasks : \A op \in QueryOps :
          (Called(t, op) /\ pool = 0) =>
              /\ task'[t].pc = "done"
              /\ task'[t].executed = <<>>
              /\ task'[t].held = 0
              /\ pool' = 0 /\ pools' = pools
              /\ op = "fetch_list" => task'[t].result = [kind |-> "list", v |-> <<>>]
              /\ op = "get_database_info" =>
                     task'[t].result = [kind |-> "text", v |-> <<NotConnectedText>>]
              /\ op = "async_fetch" =>
                     task'[t].result =
                         [kind |-> "json",
                          v |-> [j |-> "object", v |-> << <<"error", NotConnectedText>> >>]]]_vars

\* C1's case: after connect and close, get_database_info has returned the
\* not-connected string
C1_Witness ==
    /\ pool = 0 /\ pools = <<"closed">>
    /\ task["t1"].op = "get_database_info" /\ task["t1"].pc = "done"
    /\ task["t1"].result.v = <<NotConnectedText>>

\* C2: no query operation ever ends by raising to its caller: every failure of
\* the database interaction, acquiring the connection included, becomes the
\* operation's error value.
C2_NoFailurePropagates ==
    \A t \in Tasks : task[t].op \in QueryOps => task[t].pc # "raised"

\* C3: async_fetch called with the pool present ends by returning one of three
\* results, decided by the outcome of the query: the JSON string of the
\* no-results text for zero rows, the object of columns (the first row's names)
\* and data (every row's values in order) with no index for rows, and the
\* object {error: m, query: q} with the query text passed in for a failure m.
C3_ThreeResults ==
    \A t \in Tasks :
        LET tk == task[t]
        IN  (/\ tk.op = "async_fetch"
             /\ tk.pc \in {"done", "raised"}
             /\ tk.logged # <<>>) =>
                /\ tk.pc = "done"
                /\ tk.result.kind = "json"
                /\ IF Len(tk.logged) > 1
                   THEN tk.result.v =
                            [j |-> "object",
                             v |-> << <<"error", tk.logged[2][3]>>, <<"query", tk.query>> >>]
                   ELSE IF tk.rows = <<>>
                   THEN tk.result.v = [j |-> "string", v |-> NoResultsText]
                   ELSE tk.result.v =
                            [j |-> "object",
                             v |-> << <<"columns",
                                        [i \in DOMAIN tk.rows[1] |-> tk.rows[1][i][1]]>>,
                                      <<"data",
                                        [r \in DOMAIN tk.rows |->
                                            [i \in DOMAIN tk.rows[r] |-> tk.rows[r][i][2]]]>> >>]

\* the distinct tables of rows, in the order of their first appearance
FirstSeenTables(rows) ==
    LET first == SelectSeq([i \in DOMAIN rows |-> i],
                           LAMBDA i : \A j \in 1..(i - 1) :
                                          rows[j].table_name # rows[i].table_name)
    IN  [n \in DOMAIN first |-> rows[first[n]].table_name]

\* "<column>: <data_type>" of each row, separated by ", "
RECURSIVE CommaList(_)
CommaList(rows) ==
    IF rows = <<>> THEN <<>>
    ELSE IF Len(rows) = 1 THEN <<rows[1].column_name, ": ", rows[1].data_type>>
    ELSE <<rows[1].column_name, ": ", rows[1].data_type, ", ">> \o CommaList(Tail(rows))

\* the line of table among rows
ExpectedTableLine(rows, table) ==
    <<"Table ", "contoso", ".", table, ": Columns: ">>
        \o CommaList(SelectSeq(rows, LAMBDA r : r.table_name = table))

\* the lines of text that are table lines
TableLines(text) ==
    SelectSeq(SplitLines(text), LAMBDA line : line # <<>> /\ line[1] = "Table ")

\* C4: the summary get_database_info returns has exactly one table line per
\* distinct table of the introspection rows, in the order the tables first
\* appear, each listing its table's "<column>: <data_type>" in row order, also
\* when a table's rows are not contiguous.
C4_TableLines ==
    \A t \in Tasks :
        LET tk == task[t]
        IN  (/\ tk.op = "get_database_info"
             /\ tk.pc = "done"
             /\ Len(tk.results) = 4) =>
                LET lines == TableLines(tk.result.v)
                    tables == FirstSeenTables(tk.schema_data)
                IN  /\ Len(lines) = Len(tables)
                    /\ Len(tables) = Cardinality({tk.schema_data[i].table_name :
                                                     i \in DOMAIN tk.schema_data})
                    /\ \A i \in DOMAIN tables :
                           lines[i] = ExpectedTableLine(tk.schema_data, tables[i])

\* C4's case: a summary built from rows of orders, customers, orders
C4_Witness ==
    /\ task["t1"].op = "get_database_info" /\ task["t1"].pc = "done"
    /\ Len(task["t1"].results) = 4
    /\ Len(task["t1"].schema_data) = 3
    /\ task["t1"].schema_data[1].table_name = "orders"
    /\ task["t1"].schema_data[2].table_name = "customers"
    /\ task["t1"].schema_data[3].table_name = "orders"

\* C5: a close called with a pool present marks that pool closing, and when it
\* completes the pool is closed and the handle is None; a close called with no
\* pool returns at once without raising, touches no pool and leaves the handle
\* None.
C5_CloseIdempotent ==
    [][\A t \in Tasks :
          /\ (Called(t, "close") /\ pool # 0) =>
                 /\ task'[t].pc = "pool_close" /\ task'[t].p = pool
                 /\ pools'[pool] = "closing"
          /\ (task[t].pc = "pool_close" /\ task'[t].pc # "pool_close") =>
                 /\ task'[t].pc = "done"
                 /\ pools'[task[t].p] = "closed"
                 /\ pool' = 0
          /\ (Called(t, "close") /\ pool = 0) =>
                 /\ task'[t].pc = "done"
                 /\ pools' = pools
                 /\ pool' = 0]_vars

\* C5's case: connect, close, close have completed
C5_Witness ==
    /\ calls = <<"connect ok", "close", "close">>
    /\ pool = 0 /\ pools = <<"closed">>
    /\ task["t1"].pc = "done"

\* C6: after connect, close, connect on a new helper, each creation
\* succeeding, the handle is the second pool, which is open as the first was
\* after the first connect, and the first pool is closed.
C6_RoundTrip ==
    (/\ calls = <<"connect ok", "close", "connect ok">>
     /\ task["t1"].op = "connect" /\ task["t1"].pc = "done") =>
        /\ pool = 2
        /\ pools = <<"closed", "open">>
        /\ task["t1"] = [Start("connect") EXCEPT !.pc = "done", !.p = 2]

\* C6's case: the three calls have completed
C6_Witness ==
    /\ calls = <<"connect ok", "close", "connect ok">>
    /\ pool = 2
    /\ task["t1"].op = "connect" /\ task["t1"].pc = "done"

\* C7: a query operation that has passed its pool check never waits for or
\* holds a connection of a pool that is not open, and is never refused by a
\* pool that is closing or closed.
C7_HandleAbsentOrUsable ==
    \A t \in Tasks :
        task[t].op \in QueryOps =>
            /\ task[t].pc \in {"acquire", "fetch"} => pools[task[t].p] = "open"
            /\ task[t].pc = "raised" => task[t].exc \notin {"pool is closing", "pool is closed"}

\* a connect's create_pool has just failed in this step
ConnectFailed(t) ==
    /\ task[t].pc = "create_pool"
    /\ task'[t].pc # "create_pool"
    /\ Len(pools') = Len(pools)

\* C8 as stated: a connect whose pool creation fails logs the error, does not
\* raise, and leaves the pool absent, in whatever state it was invoked.
C8_FailedConnectLeavesAbsent ==
    [][\A t \in Tasks :
          ConnectFailed(t) =>
              /\ task'[t].pc = "done"
              /\ task'[t].logged # <<>>
              /\ pool' = 0]_vars

\* C8 amended: a connect whose pool creation fails logs the error, does not
\* raise, and leaves the handle and the pools as they were: absent if it was
\* absent, the earlier pool if one was present.
C8_FailedConnectKeepsHandle ==
    [][\A t \in Tasks :
          ConnectFailed(t) =>
              /\ task'[t].pc = "done"
              /\ task'[t].logged = << <<"exception", "Failed to connect to the database", "">> >>
              /\ pool' = pool
              /\ pools' = pools]_vars

\* C8's case: a connect has failed while a pool was present
C8_Witness ==
    /\ task["t2"].op = "connect" /\ task["t2"].pc = "done"
    /\ task["t2"].logged # <<>>
    /\ pool = 1 /\ pools = <<"open">>

\* the queries of get_database_info in the order the code must run them
FixedOrder ==
    << "SELECT table_name, column_name, data_type FROM information_schema.columns",
       "SELECT DISTINCT region FROM contoso.sales_data;",
       "SELECT DISTINCT product_type FROM contoso.sales_data;",
       "SELECT DISTINCT main_category FROM contoso.sales_data;",
       "SELECT DISTINCT year FROM contoso.sales_data ORDER BY year;" >>

FixedLabels == <<"Regions", "Product Types", "Product Categories", "Reporting Years">>

Place(q) == CHOOSE i \in DOMAIN FixedOrder : FixedOrder[i] = q

C10_NoPoolLeft ==
    (\A t \in Tasks : Idle(t)) =>
        \A p \in DOMAIN pools : p = pool \/ pools[p] = "closed"

=============================================================================
